---- MODULE Spec2Model ----
(***************************************************************************)
(* A model of the cookbook parsing/validation pipeline                     *)
(* (src/cookbook/parser.py, src/cookbook/tool.py).                         *)
(*                                                                         *)
(* Text is modelled as a sequence of one-character strings, so that the    *)
(* two regular expressions of the field grammar are computed position by   *)
(* position, as Python's re.match computes them.                           *)
(***************************************************************************)
EXTENDS Integers, Sequences, FiniteSets, TLC

VARIABLES
    fields,          \* the pieces the input line of a grammar run is written from
    line,            \* the text handed to Ingredient(...) / Step(...)
    gpc,             \* position of the grammar run
    ingredient,      \* result of Ingredient(line)
    ingredient_str,  \* result of str(ingredient)
    step,            \* result of Step(line)
    step_str,        \* result of str(step)
    recipe_data,     \* the decoded mapping handed to Recipe(...)
    rpc,             \* position of the Recipe construction run
    recipe,          \* result of Recipe(data)
    fs,              \* the file system: the listing of each directory
    inputs,          \* the input paths, in the order given
    lpc,             \* position of the load pass
    book,            \* what load_book(inputs) returned or raised
    pos,             \* load_recipes: index of the next entry of the traversal
    recipes,         \* load_recipes: the list of recipes being filled
    processed,       \* the calls of _process_file so far, each with its outcome
    uuids,           \* number of tokens uuid.uuid4() has drawn
    raised,          \* the exception that escaped load_recipes
    result,          \* the list load_recipes returned
    mpc,             \* position of main ("harness": the loaders are called on their own)
    options,         \* the options of main that it has read so far
    rendered,        \* the calls of render that ran, each with its arguments
    logged,          \* what main logged
    pending,         \* the exception a statement of main's own raised
    exit_code        \* what main returned

grammarVars == <<fields, line, gpc, ingredient, ingredient_str, step, step_str>>
recipeVars == <<recipe_data, rpc, recipe>>
loadVars == <<fs, inputs, lpc, book, pos, recipes, processed, uuids, raised, result>>
mainVars == <<mpc, options, rendered, logged, pending, exit_code>>
vars == <<grammarVars, recipeVars, loadVars, mainVars>>

(***************************************************************************)
(* Bounds                                                                  *)
(***************************************************************************)
\* total number of free characters in the quantity, name and details of a line
MaxText == 3
\* number of entries of a mapping's `ingredients` or `steps` list
MaxItems == 2
\* number of files in the file system
MaxFiles == 3
\* number of input paths
MaxInputs == 2

(***************************************************************************)
(* Characters and text helpers                                             *)
(***************************************************************************)
Upper == {"A", "B"}
Digits == {"1", "2"}
NL == "\n"
TextChars == {"w", " ", "(", ")", ";", NL}
Chars == Upper \cup Digits \cup TextChars \cup {".", ","}

\* Python's None (distinct from every text, the empty text included)
None == <<"None">>
\* a variable that no operation has written yet
Unset == <<"Unset">>

\* no mapping at all
NoMapping == [kind |-> "none"]

\* a key of a mapping: not there, or there with its value
Absent(v) == [kind |-> "absent", value |-> v]
Value(v) == [kind |-> "value", value |-> v]

SeqsUpTo(S, n) == UNION {[1..k -> S] : k \in 0..n}

\* `not v` for a value that is None or a str
Falsy(v) == v = None \/ v = <<>>

\* the end (exclusive) of the longest run of characters of S in s from i:
\* what a greedy  [S]*  consumes
RunEnd(s, i, S) ==
    CHOOSE j \in i..(Len(s) + 1) :
        /\ \A k \in i..(j - 1) : s[k] \in S
        /\ (j = Len(s) + 1 \/ s[j] \notin S)

Sub(s, i, j) == IF j < i THEN <<>> ELSE SubSeq(s, i, j)

\* str.strip('.')
RECURSIVE StripDots(_)
StripDots(s) ==
    IF s = <<>> THEN s
    ELSE IF Head(s) = "." THEN StripDots(Tail(s))
    ELSE IF s[Len(s)] = "." THEN StripDots(SubSeq(s, 1, Len(s) - 1))
    ELSE s

\* ', '.join(xs) for a str or a list of one-character strings
RECURSIVE JoinCommaSpace(_)
JoinCommaSpace(xs) ==
    IF Len(xs) <= 1 THEN xs
    ELSE <<Head(xs), ",", " ">> \o JoinCommaSpace(Tail(xs))

(***************************************************************************)
(* The field grammar: one re.match of the pattern of Ingredient / Step:     *)
(* the id (a run of idClass and a period; optional iff idOptional), spaces,*)
(* an optional parenthesized group of one or more characters other than    *)
(* the closing parenthesis, spaces, an optional run of characters other    *)
(* than the semicolon, spaces, and an optional tail: a semicolon, spaces   *)
(* and the rest of the physical line.                                      *)
(* Every piece after the id may match the empty text, so the first         *)
(* (greedy) attempt of each piece is the match.                            *)
(***************************************************************************)
\* the text of the details group, which starts at d0: the rest of the line
MatchDetails(data, d0) == Sub(data, d0, RunEnd(data, d0, Chars \ {NL}) - 1)

\* the optional tail at p5: a semicolon, spaces, the details
MatchTail(data, matched, id, quantity, name, p5) ==
    LET hasD == p5 <= Len(data) /\ data[p5] = ";" IN
    [ matched  |-> matched,
      id       |-> id,
      quantity |-> quantity,
      name     |-> name,
      details  |-> IF hasD THEN MatchDetails(data, RunEnd(data, p5 + 1, {" "})) ELSE None ]

\* the optional name group, which spans p3 to p4 (exclusive), then spaces
MatchName(data, matched, id, quantity, p3, p4) ==
    MatchTail(data, matched, id, quantity,
              IF p4 > p3 THEN Sub(data, p3, p4 - 1) ELSE None,
              RunEnd(data, p4, {" "}))

\* the optional parenthesized group opened at p1, whose text ends at q
\* (q = 0: no opening parenthesis at p1), then spaces
MatchQuantity(data, matched, id, p1, q) ==
    LET hasQ == q > p1 + 1 /\ q <= Len(data)
        p3   == RunEnd(data, IF hasQ THEN q + 1 ELSE p1, {" "})
    IN  MatchName(data, matched, id,
                  IF hasQ THEN Sub(data, p1 + 1, q - 1) ELSE None,
                  p3, RunEnd(data, p3, Chars \ {";"}))

\* after the id, spaces up to p1
MatchAfterId(data, matched, id, p1) ==
    MatchQuantity(data, matched, id, p1,
                  IF p1 <= Len(data) /\ data[p1] = "("
                  THEN RunEnd(data, p1 + 1, Chars \ {")"}) ELSE 0)

\* the id group: the run of idClass ends at i1 and a period follows
MatchId(data, idOptional, i1) ==
    LET hasId == i1 > 1 /\ i1 <= Len(data) /\ data[i1] = "." IN
    MatchAfterId(data, hasId \/ idOptional,
                 IF hasId THEN Sub(data, 1, i1) ELSE None,
                 RunEnd(data, IF hasId THEN i1 + 1 ELSE 1, {" "}))

Match(data, idClass, idOptional) == MatchId(data, idOptional, RunEnd(data, 1, idClass))

\* the line  ID. (QTY) NAME; DETAILS  written from its pieces
Compose(f) ==
    LET sp == IF f.spaced THEN <<" ">> ELSE <<>> IN
    f.idp \o sp
      \o (IF f.hasQty THEN <<"(">> \o f.qty \o <<")">> \o sp ELSE <<>>)
      \o f.name
      \o (IF f.hasDet THEN <<";">> \o sp \o f.det ELSE <<>>)

(***************************************************************************)
(* Ingredient                                                              *)
(***************************************************************************)
IngredientRaise(what, data) ==
    [ ok |-> FALSE, exc |-> "IngredientException", msg |-> <<what>> \o data,
      id |-> None, quantity |-> None, name |-> None, details |-> None ]

\* Ingredient.__init__(data) from the match m on
IngredientOf(data, m) ==
    IF ~m.matched THEN IngredientRaise("invalid ingredient definition: ", data)
    ELSE IF Falsy(m.id) THEN IngredientRaise("missing ingredient id: ", data)
    ELSE IF Falsy(m.quantity) THEN IngredientRaise("missing ingredient quantity: ", data)
    ELSE IF Falsy(m.name) THEN IngredientRaise("missing ingredient name: ", data)
    ELSE [ ok |-> TRUE, exc |-> "", msg |-> <<>>,
           id |-> StripDots(m.id), quantity |-> m.quantity, name |-> m.name,
           details |-> m.details ]

\* Ingredient.__init__(data)
Ingredient(data) == IngredientOf(data, Match(data, Upper, FALSE))

\* Ingredient.__str__ writing the "; " separator whether or not there are details
Ingredient__str__AlwaysSemicolon(self) ==
    LET details == <<";", " ">> \o (IF Falsy(self.details) THEN <<>> ELSE self.details)
    IN  self.id \o <<".", " ", "(">> \o self.quantity \o <<")", " ">> \o self.name \o details

\* Ingredient.__str__
Ingredient__str__(self) ==
    LET details == IF Falsy(self.details) THEN <<>> ELSE <<";", " ">> \o self.details
    IN  self.id \o <<".", " ", "(">> \o self.quantity \o <<")", " ">> \o self.name \o details

(***************************************************************************)
(* Step                                                                    *)
(***************************************************************************)
StepRaise(what, data) ==
    [ ok |-> FALSE, exc |-> "StepException", msg |-> <<what>> \o data,
      id |-> None, quantities |-> None, action |-> None, details |-> None ]

\* str.strip(' ')
RECURSIVE StripSpaces(_)
StripSpaces(s) ==
    IF s = <<>> THEN s
    ELSE IF Head(s) = " " THEN StripSpaces(Tail(s))
    ELSE IF s[Len(s)] = " " THEN StripSpaces(SubSeq(s, 1, Len(s) - 1))
    ELSE s

\* Step.__init__ keeping quantities.strip() instead of the text as written
StepOfStrippingQuantities(data, m) ==
    IF ~m.matched THEN StepRaise("***invalid step definition: ", data)
    ELSE IF Falsy(m.id) THEN StepRaise("missing step id: ", data)
    ELSE IF Falsy(m.name) THEN StepRaise("missing step action: ", data)
    ELSE [ ok |-> TRUE, exc |-> "", msg |-> <<>>,
           id |-> StripDots(m.id),
           quantities |-> IF Falsy(m.quantity) THEN <<>> ELSE StripSpaces(m.quantity),
           action |-> m.name, details |-> m.details ]

\* Step.__init__(data) from the match m on
StepOf(data, m) ==
    IF ~m.matched THEN StepRaise("***invalid step definition: ", data)
    ELSE IF Falsy(m.id) THEN StepRaise("missing step id: ", data)
    ELSE IF Falsy(m.name) THEN StepRaise("missing step action: ", data)
    ELSE [ ok |-> TRUE, exc |-> "", msg |-> <<>>,
           id |-> StripDots(m.id),
           quantities |-> IF Falsy(m.quantity) THEN <<>> ELSE m.quantity,
           action |-> m.name, details |-> m.details ]

\* Step.__init__(data)
Step(data) == StepOf(data, Match(data, Digits, TRUE))

\* Step.__str__
Step__str__(self) ==
    LET quantities == IF self.quantities # <<>>
                      THEN <<"(">> \o JoinCommaSpace(self.quantities) \o <<")", " ">>
                      ELSE <<>>
        details == IF Falsy(self.details) THEN <<>> ELSE <<";", " ">> \o self.details
    IN  self.id \o <<".", " ">> \o quantities \o self.action \o details

(***************************************************************************)
(* Recipe                                                                  *)
(*                                                                         *)
(* A decoded mapping is a record: for each key the model follows, whether  *)
(* the key is there ("kind") and its value. A list value may also be null. *)
(***************************************************************************)
RecipeRaise(exc, msg) ==
    [ ok |-> FALSE, exc |-> exc, msg |-> msg,
      id |-> [src |-> "", n |-> 0], title |-> "", ingredients |-> <<>>, steps |-> <<>>,
      sources |-> <<>>, tags |-> <<>>, img |-> "" ]

\* the indexes of the entries a constructor rejects
Failing(results) == {i \in 1..Len(results) : ~results[i].ok}

Min(S) == CHOOSE x \in S : \A y \in S : x <= y

\* the title test of Recipe.__init__ looking for the key only
HasTitleKeyOnly(d) == d.title.kind = "value"

\* 'title' in data and data['title']
HasTitle(d) == d.title.kind = "value" /\ d.title.value # ""

\* a constructor that goes through every ingredient line and reports the last
\* one rejected
RecipeOfReportingLastIngredient(d, fresh, ingredients, steps) ==
    IF ~HasTitle(d)
    THEN RecipeRaise("RecipeException", <<"a recipe must have a title">>)
    ELSE IF d.ingredients.kind = "absent" THEN RecipeRaise("KeyError", <<"ingredients">>)
    ELSE IF d.ingredients.kind = "null" THEN RecipeRaise("TypeError", <<"not iterable">>)
    ELSE IF Failing(ingredients) # {}
    THEN LET bad == ingredients[CHOOSE i \in Failing(ingredients) :
                                   \A j \in Failing(ingredients) : j <= i]
         IN  RecipeRaise(bad.exc, bad.msg)
    ELSE IF ingredients = <<>>
    THEN RecipeRaise("RecipeException", <<"a recipe must have one or more ingredients">>)
    ELSE IF d.steps.kind = "absent" THEN RecipeRaise("KeyError", <<"steps">>)
    ELSE IF d.steps.kind = "null" THEN RecipeRaise("TypeError", <<"not iterable">>)
    ELSE IF Failing(steps) # {}
    THEN LET bad == steps[Min(Failing(steps))]
         IN  RecipeRaise(bad.exc, bad.msg)
    ELSE IF steps = <<>>
    THEN RecipeRaise("RecipeException", <<"a recipe must have one or more steps">>)
    ELSE [ ok |-> TRUE, exc |-> "", msg |-> <<>>,
           id |-> IF d.id.kind = "value" THEN [src |-> "data", n |-> d.id.value] ELSE fresh,
           title |-> d.title.value,
           ingredients |-> ingredients,
           steps |-> steps,
           sources |-> IF d.sources.kind = "value" THEN d.sources.value ELSE <<>>,
           tags |-> IF d.tags.kind = "value" THEN d.tags.value ELSE <<>>,
           img |-> "" ]

\* Recipe.__init__(data) given what the two list comprehensions evaluate to
RecipeOf(d, fresh, ingredients, steps) ==
    IF ~HasTitle(d)
    THEN RecipeRaise("RecipeException", <<"a recipe must have a title">>)
    ELSE IF d.ingredients.kind = "absent" THEN RecipeRaise("KeyError", <<"ingredients">>)
    ELSE IF d.ingredients.kind = "null" THEN RecipeRaise("TypeError", <<"not iterable">>)
    ELSE IF Failing(ingredients) # {}
    THEN LET bad == ingredients[Min(Failing(ingredients))]
         IN  RecipeRaise(bad.exc, bad.msg)
    ELSE IF ingredients = <<>>
    THEN RecipeRaise("RecipeException", <<"a recipe must have one or more ingredients">>)
    ELSE IF d.steps.kind = "absent" THEN RecipeRaise("KeyError", <<"steps">>)
    ELSE IF d.steps.kind = "null" THEN RecipeRaise("TypeError", <<"not iterable">>)
    ELSE IF Failing(steps) # {}
    THEN LET bad == steps[Min(Failing(steps))]
         IN  RecipeRaise(bad.exc, bad.msg)
    ELSE IF steps = <<>>
    THEN RecipeRaise("RecipeException", <<"a recipe must have one or more steps">>)
    ELSE [ ok |-> TRUE, exc |-> "", msg |-> <<>>,
           id |-> IF d.id.kind = "value" THEN [src |-> "data", n |-> d.id.value] ELSE fresh,
           title |-> d.title.value,
           ingredients |-> ingredients,
           steps |-> steps,
           sources |-> IF d.sources.kind = "value" THEN d.sources.value ELSE <<>>,
           tags |-> IF d.tags.kind = "value" THEN d.tags.value ELSE <<>>,
           img |-> "" ]

\* Recipe.__init__(data); fresh is the token uuid.uuid4() draws
Recipe(d, fresh) ==
    RecipeOf(d, fresh,
             [i \in 1..Len(d.ingredients.items) |-> Ingredient(d.ingredients.items[i])],
             [i \in 1..Len(d.steps.items) |-> Step(d.steps.items[i])])

(***************************************************************************)
(* Book                                                                    *)
(***************************************************************************)
NoPath == [dir |-> "", name |-> <<>>]
NoCause == [type |-> "none", msg |-> <<>>]
NoException == [type |-> "none", filename |-> NoPath, message |-> "", cause |-> NoCause]

\* an exception that is no SourceException, raised with msg
RaiseRaw(type, msg) ==
    [type |-> type, filename |-> NoPath, message |-> "", cause |-> [type |-> type, msg |-> msg]]

NoBook == [title |-> "", descriptions |-> "", authors |-> "", revision |-> "", renderer |-> ""]

BookReturn(b, path) == [kind |-> "book", book |-> b, path |-> path, exc |-> NoException]
BookRaise(exc, path) == [kind |-> "raise", book |-> NoBook, path |-> path, exc |-> exc]
BookNone == [kind |-> "none", book |-> NoBook, path |-> NoPath, exc |-> NoException]

\* Book.__init__(data) for the mapping d of the manifest at path
Book(d, path) ==
    IF d.title.kind = "absent" THEN BookRaise(RaiseRaw("KeyError", <<"title">>), path)
    ELSE IF d.descriptions.kind = "absent"
    THEN BookRaise(RaiseRaw("KeyError", <<"descriptions">>), path)
    ELSE IF d.authors.kind = "absent" THEN BookRaise(RaiseRaw("KeyError", <<"authors">>), path)
    ELSE IF d.revision.kind = "absent" THEN BookRaise(RaiseRaw("KeyError", <<"revision">>), path)
    ELSE IF d.renderer.kind = "absent" THEN BookRaise(RaiseRaw("KeyError", <<"renderer">>), path)
    ELSE BookReturn([ title |-> d.title.value, descriptions |-> d.descriptions.value,
                      authors |-> d.authors.value, revision |-> d.revision.value,
                      renderer |-> d.renderer.value ], path)

(***************************************************************************)
(* The file system                                                         *)
(*                                                                         *)
(* Two directories, "top" and its subdirectory "sub". A listing is the     *)
(* sequence of a directory's files in the order the system lists them; a   *)
(* file has a name <<stem, suffix>> and what yaml.safe_load makes of it.   *)
(* A path is a directory and, for a file, its name.                        *)
(***************************************************************************)
BookYaml == <<"book", ".yaml">>

DirPath(dir) == [dir |-> dir, name |-> <<>>]
FilePath(dir, name) == [dir |-> dir, name |-> name]

\* Path.is_dir() / Path.is_file() of an input path, which exists
is_dir(p) == p.name = <<>>
is_file(p) == p.name # <<>>

Listing(f, dir) == IF dir = "top" THEN f.top ELSE f.sub

Names(listing) == {listing[i].name : i \in 1..Len(listing)}

\* Path.exists()
exists(f, p) == p.name \in Names(Listing(f, p.dir))

NoContent == [kind |-> "missing", map |-> NoMapping]

\* what yaml.safe_load(file.open()) does for the file at p
ContentAt(f, p) ==
    LET l == Listing(f, p.dir)
        at == {i \in 1..Len(l) : l[i].name = p.name}
    IN  IF at = {} THEN NoContent ELSE l[CHOOSE i \in at : TRUE].content

\* Path.with_suffix(suffix)
with_suffix(p, suffix) == [dir |-> p.dir, name |-> <<p.name[1], suffix>>]

\* the files os.walk(dir) yields, in its order: a directory's own files, then
\* those of its subdirectory
Walk(f, dir) ==
    LET own(d) == [i \in 1..Len(Listing(f, d)) |->
                      [path |-> FilePath(d, Listing(f, d)[i].name), walked |-> TRUE]]
    IN  IF dir = "top" THEN own("top") \o own("sub") ELSE own("sub")

\* the files load_recipes comes to, in its order: for each input, the files of
\* the walk of a directory, or the file itself
RECURSIVE Traversal(_, _)
Traversal(f, ins) ==
    IF ins = <<>> THEN <<>>
    ELSE (IF is_dir(Head(ins)) THEN Walk(f, Head(ins).dir)
          ELSE << [path |-> Head(ins), walked |-> FALSE] >>)
         \o Traversal(f, Tail(ins))

\* a walk that hands every file ending in .yaml to _process_file, manifest included
IsCandidateNotSkippingManifest(e) ==
    e.walked => e.path.name[2] = ".yaml"

\* whether load_recipes hands the entry to _process_file: a walked file must end
\* in .yaml, and no file named book.yaml is ever handed over
IsCandidate(e) ==
    /\ e.path.name # BookYaml
    /\ (e.walked => e.path.name[2] = ".yaml")

(***************************************************************************)
(* load_book                                                               *)
(***************************************************************************)
\* Book(yaml.safe_load(f.open())) for the manifest at path, whose content is c
LoadManifest(c, path) ==
    IF c.kind = "undecodable" THEN BookRaise(RaiseRaw("YAMLError", <<"undecodable">>), path)
    ELSE IF c.kind = "null" THEN BookRaise(RaiseRaw("TypeError", <<"not subscriptable">>), path)
    ELSE Book(c.map, path)

\* the manifest an input path stands for: book.yaml directly inside a directory,
\* or the file itself when it is named book.yaml
ManifestOf(p) == IF is_dir(p) THEN FilePath(p.dir, BookYaml) ELSE p

\* whether load_book stops at input path p
HasManifest(f, p) ==
    IF is_dir(p) THEN exists(f, ManifestOf(p)) ELSE p.name = BookYaml

\* a lookup that keeps going and returns the Book of the last matching input
load_bookLastMatch(f, ins) ==
    LET hits == {i \in 1..Len(ins) : HasManifest(f, ins[i])}
        last == CHOOSE i \in hits : \A j \in hits : j <= i
    IN  IF hits = {} THEN BookNone
        ELSE LoadManifest(ContentAt(f, ManifestOf(ins[last])), ManifestOf(ins[last]))

\* load_book(inputs)
load_book(f, ins) ==
    LET hits == {i \in 1..Len(ins) : HasManifest(f, ins[i])} IN
    IF hits = {} THEN BookNone
    ELSE LoadManifest(ContentAt(f, ManifestOf(ins[Min(hits)])), ManifestOf(ins[Min(hits)]))

(***************************************************************************)
(* _process_file                                                           *)
(***************************************************************************)
CookbookExceptions ==
    {"CookbookException", "SourceException", "RecipeException", "IngredientException",
     "StepException"}

\* raise SourceException(str(file)[, message]) from cause
SourceException(file, message, cause) ==
    [type |-> "SourceException", filename |-> file, message |-> message, cause |-> cause]

\* only the first except clause: what is no CookbookException passes through
TranslateCookbookOnly(file, cause) ==
    IF cause.type \in CookbookExceptions
    THEN SourceException(file, "", cause)
    ELSE RaiseRaw(cause.type, cause.msg)

\* the two except clauses of _process_file
Translate(file, cause) ==
    IF cause.type \in CookbookExceptions
    THEN SourceException(file, "", cause)
    ELSE SourceException(file, "unexpected exception while processing file", cause)

\* a lookup that probes .jpeg before .png
ImageOfJpegFirst(f, file) ==
    IF exists(f, with_suffix(file, ".jpeg")) THEN with_suffix(file, ".jpeg").name
    ELSE IF exists(f, with_suffix(file, ".png")) THEN with_suffix(file, ".png").name
    ELSE <<>>

\* the image lookup of _process_file: the first of .png, .jpeg that exists
ImageOf(f, file) ==
    IF exists(f, with_suffix(file, ".png")) THEN with_suffix(file, ".png").name
    ELSE IF exists(f, with_suffix(file, ".jpeg")) THEN with_suffix(file, ".jpeg").name
    ELSE <<>>

Appended(r) == [kind |-> "appended", recipe |-> r, exc |-> NoException]
Skipped == [kind |-> "empty", recipe |-> Unset, exc |-> NoException]
Raised(exc) == [kind |-> "raise", recipe |-> Unset, exc |-> exc]

\* _process_file once Recipe(data) has returned or raised r
ProcessRecipe(f, file, r) ==
    IF ~r.ok THEN Raised(Translate(file, [type |-> r.exc, msg |-> r.msg]))
    ELSE Appended([r EXCEPT !.img = ImageOf(f, file)])

\* without the `if not data` test: Recipe(None) is constructed
ProcessContentConstructingNull(f, file, c, fresh) ==
    IF c.kind = "undecodable"
    THEN Raised(Translate(file, [type |-> "YAMLError", msg |-> <<"undecodable">>]))
    ELSE IF c.kind = "null"
    THEN Raised(Translate(file, [type |-> "TypeError", msg |-> <<"not subscriptable">>]))
    ELSE ProcessRecipe(f, file, Recipe(c.map, fresh))

\* _process_file(file, recipes): what it does with the content c of the file
ProcessContent(f, file, c, fresh) ==
    IF c.kind = "undecodable"
    THEN Raised(Translate(file, [type |-> "YAMLError", msg |-> <<"undecodable">>]))
    ELSE IF c.kind = "null" THEN Skipped
    ELSE ProcessRecipe(f, file, Recipe(c.map, fresh))

_process_file(f, file, fresh) == ProcessContent(f, file, ContentAt(f, file), fresh)

(***************************************************************************)
(* Recipe construction runs: a mapping is drawn, Recipe(data) is built     *)
(***************************************************************************)
\* the pieces of the lines a mapping is written with
Piece(idp, hasQty, qty, name, hasDet, det) ==
    [ idp |-> idp, spaced |-> TRUE, hasQty |-> hasQty, qty |-> qty,
      name |-> name, hasDet |-> hasDet, det |-> det ]

IngredientPieces ==
    { Piece(<<"A", ".">>, TRUE, <<"1">>, <<"w">>, FALSE, <<>>),
      Piece(<<"A", ".">>, TRUE, <<"2">>, <<"w">>, TRUE, <<"w">>),
      Piece(<<"B", ".">>, TRUE, <<"1">>, <<"w">>, FALSE, <<>>),
      Piece(<<"A", ".">>, FALSE, <<>>, <<"w">>, FALSE, <<>>),
      Piece(<<"B", ".">>, FALSE, <<>>, <<"w">>, FALSE, <<>>) }

StepPieces ==
    { Piece(<<"1", ".">>, FALSE, <<>>, <<"w">>, FALSE, <<>>),
      Piece(<<"2", ".">>, TRUE, <<"1">>, <<"w">>, FALSE, <<>>),
      Piece(<<>>, FALSE, <<>>, <<"w">>, FALSE, <<>>) }

IngredientLines == {Compose(f) : f \in IngredientPieces}
StepLines == {Compose(f) : f \in StepPieces}

ListValues(lines) ==
    { [kind |-> "absent", items |-> <<>>], [kind |-> "null", items |-> <<>>] }
      \cup { [kind |-> "list", items |-> l] : l \in SeqsUpTo(lines, MaxItems) }

OptionalValues(values) ==
    { Absent(CHOOSE v \in values : TRUE) } \cup { Value(v) : v \in values }

\* a decoded mapping: the keys that Recipe reads and the keys that Book reads
MappingOf(id, title, ingredients, steps, sources, tags,
          descriptions, authors, revision, renderer) ==
    [ id |-> id, title |-> title, ingredients |-> ingredients, steps |-> steps,
      sources |-> sources, tags |-> tags, descriptions |-> descriptions,
      authors |-> authors, revision |-> revision, renderer |-> renderer ]

\* a recipe file's mapping
Mapping(id, title, ingredients, steps, sources, tags) ==
    MappingOf(id, title, ingredients, steps, sources, tags,
              Absent(""), Absent(""), Absent(""), Absent(""))

\* a manifest's mapping
BookMapping(title, descriptions, authors, revision, renderer) ==
    MappingOf(Absent(1), title, [kind |-> "absent", items |-> <<>>],
              [kind |-> "absent", items |-> <<>>], Absent(<<"book">>), Absent(<<"hot">>),
              descriptions, authors, revision, renderer)

RecipeIdle ==
    /\ recipe_data = NoMapping
    /\ rpc = "idle"
    /\ recipe = Unset

\* an option main has not read yet
Unread == [kind |-> "unread", value |-> ""]

NoOptions == [output |-> Unread, verbose |-> Unread, renderer |-> Unread]

\* no load pass has started
LoadStart ==
    /\ book = Unset
    /\ pos = 0
    /\ recipes = <<>>
    /\ processed = <<>>
    /\ uuids = 0
    /\ raised = NoException
    /\ result = Unset

MainIdle ==
    /\ mpc = "harness"
    /\ options = NoOptions
    /\ rendered = <<>>
    /\ logged = <<>>
    /\ pending = NoException
    /\ exit_code = -1

LoadIdle ==
    /\ fs = [top |-> <<>>, sub |-> <<>>]
    /\ inputs = <<>>
    /\ lpc = "idle"
    /\ LoadStart
    /\ MainIdle

(***************************************************************************)
(* Grammar runs: a line is written from its pieces, parsed, serialized     *)
(***************************************************************************)
IdParts == { <<>>, <<"A">>, <<"A", ".">>, <<"A", "B", ".">>, <<"1", ".">>, <<"1", "2", ".">> }

\* the pieces of a line: the free text of the quantity, the name (or action)
\* and the details holds MaxText characters at most, all together
GrammarInit ==
    /\ \E idp \in IdParts, spaced \in BOOLEAN, hasQty \in BOOLEAN, hasDet \in BOOLEAN :
       \E qty \in (IF hasQty THEN SeqsUpTo(TextChars, MaxText) ELSE {<<>>}) :
       \E name \in SeqsUpTo(TextChars, MaxText - Len(qty)) :
       \E det \in (IF hasDet THEN SeqsUpTo(TextChars, MaxText - Len(qty) - Len(name))
                   ELSE {<<>>}) :
          fields = [ idp |-> idp, spaced |-> spaced, hasQty |-> hasQty, qty |-> qty,
                     name |-> name, hasDet |-> hasDet, det |-> det ]
    /\ line = Compose(fields)
    /\ gpc = "line"
    /\ ingredient = Unset
    /\ ingredient_str = Unset
    /\ step = Unset
    /\ step_str = Unset
    /\ RecipeIdle
    /\ LoadIdle

NewIngredient ==
    /\ gpc = "line"
    /\ ingredient' = Ingredient(line)
    /\ gpc' = "ingredient"
    /\ UNCHANGED <<fields, line, ingredient_str, step, step_str, recipeVars, loadVars, mainVars>>

StrIngredient ==
    /\ gpc = "ingredient"
    /\ ingredient.ok
    /\ ingredient_str' = Ingredient__str__(ingredient)
    /\ gpc' = "ingredient_str"
    /\ UNCHANGED <<fields, line, ingredient, step, step_str, recipeVars, loadVars, mainVars>>

NewStep ==
    /\ gpc = "line"
    /\ step' = Step(line)
    /\ gpc' = "step"
    /\ UNCHANGED <<fields, line, ingredient, ingredient_str, step_str, recipeVars, loadVars, mainVars>>

StrStep ==
    /\ gpc = "step"
    /\ step.ok
    /\ step_str' = Step__str__(step)
    /\ gpc' = "step_str"
    /\ UNCHANGED <<fields, line, ingredient, ingredient_str, step, recipeVars, loadVars, mainVars>>

GrammarNext == NewIngredient \/ StrIngredient \/ NewStep \/ StrStep

SpecGrammar == GrammarInit /\ [][GrammarNext]_vars

GrammarIdle ==
    /\ fields = Piece(<<>>, FALSE, <<>>, <<>>, FALSE, <<>>)
    /\ line = <<>>
    /\ gpc = "idle"
    /\ ingredient = Unset
    /\ ingredient_str = Unset
    /\ step = Unset
    /\ step_str = Unset

RecipeInit ==
    /\ \E id \in OptionalValues({1}), title \in OptionalValues({"", "Tea"}),
          ingredients \in ListValues(IngredientLines), steps \in ListValues(StepLines),
          sources \in OptionalValues({<<"book">>}), tags \in OptionalValues({<<"hot">>}) :
          recipe_data = Mapping(id, title, ingredients, steps, sources, tags)
    /\ rpc = "mapping"
    /\ recipe = Unset
    /\ GrammarIdle
    /\ LoadIdle

NewRecipe ==
    /\ rpc = "mapping"
    /\ recipe' = Recipe(recipe_data, [src |-> "uuid4", n |-> 1])
    /\ rpc' = "recipe"
    /\ UNCHANGED <<recipe_data, grammarVars, loadVars, mainVars>>

RecipeNext == NewRecipe

SpecRecipe == RecipeInit /\ [][RecipeNext]_vars

(***************************************************************************)
(* Load passes: a file system and input paths are drawn, load_book and     *)
(* load_recipes are called on them                                         *)
(***************************************************************************)
Line(f) == Compose(f)

GoodRecipe ==
    Mapping(Absent(1), Value("Tea"),
            [kind |-> "list", items |-> <<Line(Piece(<<"A", ".">>, TRUE, <<"1">>, <<"w">>, FALSE, <<>>))>>],
            [kind |-> "list", items |-> <<Line(Piece(<<"1", ".">>, FALSE, <<>>, <<"w">>, FALSE, <<>>))>>],
            Absent(<<"book">>), Absent(<<"hot">>))

\* no title: Recipe raises RecipeException
NoTitleRecipe == [GoodRecipe EXCEPT !.title = Absent("Tea")]

\* no steps key: Recipe raises KeyError
NoStepsRecipe == [GoodRecipe EXCEPT !.steps = [kind |-> "absent", items |-> <<>>]]

GoodBook ==
    BookMapping(Value("Cookbook"), Value("recipes"), Value("me"), Value("1"), Value("sphinx"))

\* no renderer key: Book raises KeyError
NoRendererBook == [GoodBook EXCEPT !.renderer = Absent("")]

MappingContent(m) == [kind |-> "mapping", map |-> m]
NullContent == [kind |-> "null", map |-> NoMapping]
Undecodable == [kind |-> "undecodable", map |-> NoMapping]

RecipeContents ==
    {MappingContent(GoodRecipe), NullContent, MappingContent(NoTitleRecipe),
     MappingContent(NoStepsRecipe)}

BookContents == {MappingContent(GoodBook), MappingContent(NoRendererBook), NullContent}

File(name, content) == [name |-> name, content |-> content]

Files ==
    {File(<<"a", ".yaml">>, c) : c \in RecipeContents}
      \cup {File(<<"b", ".yaml">>, c) : c \in RecipeContents}
      \cup {File(BookYaml, c) : c \in BookContents}
      \cup {File(<<"a", ".png">>, Undecodable), File(<<"a", ".jpeg">>, Undecodable)}

\* the listings of n files, no two of one name
Listings(n) ==
    {l \in [1..n -> Files] : \A i, j \in 1..n : i # j => l[i].name # l[j].name}

\* the paths that exist
ExistingPaths(f) ==
    {DirPath("top"), DirPath("sub")}
      \cup {FilePath("top", n) : n \in Names(f.top)}
      \cup {FilePath("sub", n) : n \in Names(f.sub)}

FileSystemInit ==
    /\ \E nt \in 0..MaxFiles :
       \E ns \in 0..(MaxFiles - nt) :
       \E top \in Listings(nt), sub \in Listings(ns) :
          fs = [top |-> top, sub |-> sub]
    /\ \E k \in 0..MaxInputs : inputs \in [1..k -> ExistingPaths(fs)]

LoadInit ==
    /\ FileSystemInit
    /\ lpc = "start"
    /\ LoadStart
    /\ MainIdle
    /\ GrammarIdle
    /\ RecipeIdle

\* book = load_book(inputs)
LoadBookCall ==
    /\ lpc = "start"
    /\ mpc \in {"harness", "try"}
    /\ book' = load_book(fs, inputs)
    /\ lpc' = "book"
    /\ UNCHANGED <<fs, inputs, pos, recipes, processed, uuids, raised, result>>
    /\ UNCHANGED <<grammarVars, recipeVars, mainVars>>

\* load_recipes(inputs) is entered: recipes = list(). Within main it is reached
\* only when load_book did not raise.
LoadRecipesCall ==
    /\ lpc = "book"
    /\ mpc \in {"harness", "try"}
    /\ (mpc = "try" => book.kind # "raise")
    /\ recipes' = <<>>
    /\ pos' = 1
    /\ lpc' = "walking"
    /\ UNCHANGED <<fs, inputs, book, processed, uuids, raised, result>>
    /\ UNCHANGED <<grammarVars, recipeVars, mainVars>>

\* the loops of load_recipes and _process_dir pass over a file they do not
\* hand to _process_file (continue)
SkipFile ==
    /\ lpc = "walking"
    /\ pos <= Len(Traversal(fs, inputs))
    /\ ~IsCandidate(Traversal(fs, inputs)[pos])
    /\ pos' = pos + 1
    /\ UNCHANGED <<fs, inputs, lpc, book, recipes, processed, uuids, raised, result>>
    /\ UNCHANGED <<grammarVars, recipeVars, mainVars>>

\* the effect of one call _process_file(file, recipes) whose outcome is o
ProcessFileDoes(file, o) ==
    /\ processed' = Append(processed, [path |-> file, outcome |-> o.kind])
    /\ uuids' = IF ContentAt(fs, file).kind = "mapping" THEN uuids + 1 ELSE uuids
    /\ recipes' = IF o.kind = "appended" THEN Append(recipes, o.recipe) ELSE recipes
    /\ raised' = IF o.kind = "raise" THEN o.exc ELSE raised
    /\ lpc' = IF o.kind = "raise" THEN "raised" ELSE lpc
    /\ pos' = IF o.kind = "raise" THEN pos ELSE pos + 1

\* _process_file(file, recipes), called by load_recipes or by _process_dir;
\* an exception it raises escapes load_recipes
ProcessFile ==
    /\ lpc = "walking"
    /\ pos <= Len(Traversal(fs, inputs))
    /\ IsCandidate(Traversal(fs, inputs)[pos])
    /\ ProcessFileDoes(Traversal(fs, inputs)[pos].path,
                       _process_file(fs, Traversal(fs, inputs)[pos].path,
                                     [src |-> "uuid4", n |-> uuids + 1]))
    /\ UNCHANGED <<fs, inputs, book, result>>
    /\ UNCHANGED <<grammarVars, recipeVars, mainVars>>

\* return recipes
LoadRecipesReturn ==
    /\ lpc = "walking"
    /\ pos > Len(Traversal(fs, inputs))
    /\ result' = recipes
    /\ lpc' = "returned"
    /\ UNCHANGED <<fs, inputs, book, pos, recipes, processed, uuids, raised>>
    /\ UNCHANGED <<grammarVars, recipeVars, mainVars>>

LoadNext == LoadBookCall \/ LoadRecipesCall \/ SkipFile \/ ProcessFile \/ LoadRecipesReturn

SpecLoad == LoadInit /\ [][LoadNext]_vars

(***************************************************************************)
(* main                                                                    *)
(*                                                                         *)
(* The options are arguments of main; each is drawn when main first reads  *)
(* it, and kept in options from then on (Unread: not read yet, so the run  *)
(* so far is the run for every value of the option).                       *)
(***************************************************************************)
\* the positional arguments main passes to render, render(book, recipes)
RenderArgs == 2
\* the parameters of render(book, recipes, output), none with a default
RenderParams == 3

\* `if x:` for an option: given and not the empty string
Given(o) == o.kind = "value" /\ o.value # ""

MainInit ==
    /\ FileSystemInit
    /\ lpc = "start"
    /\ LoadStart
    /\ mpc = "start"
    /\ options = NoOptions
    /\ rendered = <<>>
    /\ logged = <<>>
    /\ pending = NoException
    /\ exit_code = -1
    /\ GrammarIdle
    /\ RecipeIdle

\* if not inputs: return 0 -- else the try block is entered
MainEnter ==
    /\ mpc = "start"
    /\ IF inputs = <<>>
       THEN mpc' = "exit" /\ exit_code' = 0
       ELSE mpc' = "try" /\ UNCHANGED exit_code
    /\ UNCHANGED <<options, rendered, logged, pending>>
    /\ UNCHANGED <<grammarVars, recipeVars, loadVars>>

\* if renderer: book.renderer = renderer
MainRenderer ==
    /\ mpc = "try"
    /\ lpc = "returned"
    /\ \E r \in {Absent(""), Value("html")} :
          /\ options' = [options EXCEPT !.renderer = r]
          /\ IF ~Given(r)
             THEN mpc' = "if_output" /\ UNCHANGED <<book, pending>>
             ELSE IF book.kind = "none"
             THEN /\ mpc' = "except"
                  /\ pending' = RaiseRaw("AttributeError", <<"renderer">>)
                  /\ UNCHANGED book
             ELSE /\ mpc' = "if_output"
                  /\ book' = [book EXCEPT !.book.renderer = r.value]
                  /\ UNCHANGED pending
    /\ UNCHANGED <<rendered, logged, exit_code>>
    /\ UNCHANGED <<fs, inputs, lpc, pos, recipes, processed, uuids, raised, result>>
    /\ UNCHANGED <<grammarVars, recipeVars>>

\* render(book, recipes, output): the renderer module named by book.renderer is
\* imported and the output tree is written
render(b, rs, output) ==
    IF b.kind = "none"
    THEN /\ pending' = RaiseRaw("AttributeError", <<"renderer">>)
         /\ mpc' = "except"
         /\ UNCHANGED <<rendered, exit_code>>
    ELSE /\ rendered' = Append(rendered, [renderer |-> b.book.renderer, book |-> b.book,
                                          recipes |-> rs, output |-> output])
         /\ mpc' = "exit"
         /\ exit_code' = 0
         /\ UNCHANGED pending

\* if output: render(book, recipes) -- then return 0
MainOutput ==
    /\ mpc = "if_output"
    /\ \E o \in {Absent(""), Value("out")} :
          /\ options' = [options EXCEPT !.output = o]
          /\ IF ~Given(o)
             THEN mpc' = "exit" /\ exit_code' = 0 /\ UNCHANGED <<pending, rendered>>
             ELSE IF RenderArgs # RenderParams
             THEN /\ pending' = RaiseRaw("TypeError", <<"render() missing 1 required positional argument">>)
                  /\ mpc' = "except"
                  /\ UNCHANGED <<rendered, exit_code>>
             ELSE render(book, result, o.value)
    /\ UNCHANGED logged
    /\ UNCHANGED <<grammarVars, recipeVars, loadVars>>

\* the exception the try block of main ends with, if any
Escaped ==
    IF mpc = "except" THEN pending
    ELSE IF mpc = "try" /\ lpc = "book" /\ book.kind = "raise" THEN book.exc
    ELSE IF mpc = "try" /\ lpc = "raised" THEN raised
    ELSE NoException

\* except SourceException / except Exception: log, print the trace if verbose,
\* return 1
MainExcept ==
    /\ Escaped # NoException
    /\ \E v \in BOOLEAN :
          /\ options' = [options EXCEPT !.verbose = Value(v)]
          /\ logged' = Append(logged,
                 [text |-> IF Escaped.type = "SourceException" THEN "[!]: " ELSE "Error: ",
                  exc |-> Escaped, traceback |-> v])
    /\ exit_code' = 1
    /\ mpc' = "exit"
    /\ UNCHANGED <<rendered, pending>>
    /\ UNCHANGED <<grammarVars, recipeVars, loadVars>>

MainNext ==
    \/ MainEnter
    \/ LoadBookCall
    \/ LoadRecipesCall
    \/ SkipFile
    \/ ProcessFile
    \/ LoadRecipesReturn
    \/ MainRenderer
    \/ MainOutput
    \/ MainExcept

SpecMain == MainInit /\ [][MainNext]_vars

(***************************************************************************)
(* The shapes of line the grammar claims speak of, read off the pieces a  *)
(* line is written from                                                    *)
(***************************************************************************)
Range(s) == {s[i] : i \in 1..Len(s)}

\* ID. with ID one or more characters of class
IsId(idp, class) ==
    /\ Len(idp) >= 2
    /\ idp[Len(idp)] = "."
    /\ \A i \in 1..(Len(idp) - 1) : idp[i] \in class

\* a text that holds a character other than the space
NonBlank(t) == Range(t) \ {" "} # {}

\* a quantity as the grammar writes it: non-empty, without ')'
IsQty(t) == t # <<>> /\ ")" \notin Range(t)

\* a name or action as the claims write it: non-empty, without ';'
IsName(t) == t # <<>> /\ ";" \notin Range(t)

\* a name, action or details text written without a leading space
Trimmed(t) == t # <<>> /\ Head(t) # " "

\* details that stay on the line of their semicolon
IsDetails(t) == Trimmed(t) /\ NL \notin Range(t)

\* ID. (QTY) NAME; DETAILS  and  ID. (QTY) NAME
IngredientForm(f) ==
    /\ IsId(f.idp, Upper)
    /\ f.spaced
    /\ f.hasQty /\ IsQty(f.qty)
    /\ IsName(f.name)

\* ... with NAME and DETAILS written without leading space, DETAILS non-empty
\* and on one line
TrimmedIngredientForm(f) ==
    /\ IngredientForm(f)
    /\ Trimmed(f.name)
    /\ (f.hasDet => IsDetails(f.det))

(***************************************************************************)
(* C1                                                                      *)
(***************************************************************************)
\* C1 as stated: every line ID. (QTY) NAME; DETAILS or ID. (QTY) NAME (ID
\* uppercase letters, QTY non-empty without ')', NAME non-empty without ';')
\* is accepted by Ingredient and str(Ingredient(line)) equals the line.
C1_RoundTripAsStated ==
    IngredientForm(fields) =>
        /\ (gpc = "ingredient" => ingredient.ok)
        /\ (gpc = "ingredient_str" => ingredient_str = line)

\* C1 amended: the round trip str(Ingredient(line)) = line holds for every
\* such line whose NAME does not begin with a space and whose DETAILS, when
\* written, are non-empty, do not begin with a space and hold no line break.
C1_RoundTripTrimmed ==
    TrimmedIngredientForm(fields) =>
        /\ (gpc = "ingredient" => ingredient.ok)
        /\ (gpc = "ingredient_str" => ingredient_str = line)

\* a line with details has been parsed and serialized back to itself
C1_Witness ==
    /\ gpc = "ingredient_str"
    /\ TrimmedIngredientForm(fields)
    /\ fields.hasDet
    /\ ingredient.details = fields.det
    /\ ingredient_str = line

(***************************************************************************)
(* C2                                                                      *)
(***************************************************************************)
\* the line lacks the parenthesized quantity, the id and the name are there
LacksQuantity(f) ==
    /\ IsId(f.idp, Upper) /\ ~f.hasQty
    /\ IsName(f.name) /\ Trimmed(f.name) /\ Head(f.name) # "("

\* the line lacks the id, the quantity and the name are there
LacksId(f) ==
    /\ f.idp = <<>> /\ f.hasQty /\ IsQty(f.qty)
    /\ IsName(f.name) /\ Trimmed(f.name)

\* the line lacks the name, the id and the quantity are there
LacksName(f) ==
    /\ IsId(f.idp, Upper) /\ f.hasQty /\ IsQty(f.qty)
    /\ f.name = <<>>

IngredientFailsWith(what) ==
    /\ ~ingredient.ok
    /\ ingredient.exc = "IngredientException"
    /\ ingredient.msg = <<what>> \o line

\* C2: a line lacking the quantity fails with 'missing ingredient quantity',
\* one lacking the id with 'missing ingredient id', one lacking the name with
\* 'missing ingredient name', each message echoing the line.
C2_MissingFieldErrors ==
    gpc = "ingredient" =>
        /\ (LacksQuantity(fields) => IngredientFailsWith("missing ingredient quantity: "))
        /\ (LacksId(fields) => IngredientFailsWith("missing ingredient id: "))
        /\ (LacksName(fields) => IngredientFailsWith("missing ingredient name: "))

(***************************************************************************)
(* C3                                                                      *)
(***************************************************************************)
\* the first character of t that is not a space (" " if there is none)
FirstNonSpace(t) ==
    LET i == RunEnd(t, 1, {" "}) IN IF i <= Len(t) THEN t[i] ELSE " "

\* a Step line with an id and a non-empty action; its quantity-list, when
\* written, is non-empty text without ')'; when it is not written the action
\* does not open a parenthesis of its own
StepForm(f) ==
    /\ IsId(f.idp, Digits)
    /\ IsName(f.name) /\ NonBlank(f.name)
    /\ (f.hasQty => IsQty(f.qty))
    /\ (~f.hasQty => FirstNonSpace(f.name) # "(")

\* C3: for every Step line with an id and a non-empty action construction
\* succeeds; Step.quantities is empty when the quantity-list is absent and
\* is exactly the text between the parentheses when it is present.
C3_QuantitiesOptionalVerbatim ==
    (gpc \in {"step", "step_str"} /\ StepForm(fields)) =>
        /\ step.ok
        /\ step.quantities = (IF fields.hasQty THEN fields.qty ELSE <<>>)

\* a Step with a quantity-list of several characters, spaces among them
C3_Witness ==
    /\ gpc = "step"
    /\ StepForm(fields)
    /\ fields.hasQty /\ Len(fields.qty) >= 2 /\ " " \in Range(fields.qty)
    /\ step.ok
    /\ step.quantities = fields.qty

(***************************************************************************)
(* C4                                                                      *)
(***************************************************************************)
\* ID. (QTYLIST) ACTION; DETAILS and its variants, every piece written without
\* leading space
TrimmedStepForm(f) ==
    /\ StepForm(f)
    /\ f.spaced
    /\ Trimmed(f.name)
    /\ (f.hasDet => IsDetails(f.det))

\* C4: str(Step(line)) equals the line, for quantity-list text of any length.
C4_StepRoundTrip ==
    (gpc = "step_str" /\ TrimmedStepForm(fields)) => step_str = line

(***************************************************************************)
(* C5                                                                      *)
(***************************************************************************)
\* the pieces a line of a mapping was written from
PiecesOf(l, pieces) == CHOOSE f \in pieces : Compose(f) = l

\* element i of parsed is the parse of entry i of items
InSourceOrder(parsed, items, pieces) ==
    /\ Len(parsed) = Len(items)
    /\ \A i \in 1..Len(items) :
          LET f == PiecesOf(items[i], pieces) IN
          /\ parsed[i].ok
          /\ parsed[i].id = StripDots(f.idp)
          /\ parsed[i].details = (IF f.hasDet THEN f.det ELSE None)

\* C5: Recipe(data) fails for a mapping with zero ingredients, zero steps or
\* an absent or empty title; a constructed Recipe has a non-empty title, at
\* least one Ingredient and one Step, and ingredients and steps in the order
\* of the source lists.
C5_RecipeNonEmptyOrdered ==
    rpc = "recipe" =>
        LET d == recipe_data IN
        /\ (d.ingredients.items = <<>> \/ d.steps.items = <<>>
              \/ d.title.kind = "absent" \/ d.title.value = "") => ~recipe.ok
        /\ recipe.ok =>
              /\ recipe.title # ""
              /\ Len(recipe.ingredients) >= 1
              /\ Len(recipe.steps) >= 1
              /\ InSourceOrder(recipe.ingredients, d.ingredients.items, IngredientPieces)
              /\ \A i \in 1..Len(recipe.ingredients) :
                    /\ recipe.ingredients[i].quantity
                         = PiecesOf(d.ingredients.items[i], IngredientPieces).qty
                    /\ recipe.ingredients[i].name
                         = PiecesOf(d.ingredients.items[i], IngredientPieces).name
              /\ InSourceOrder(recipe.steps, d.steps.items, StepPieces)
              /\ \A i \in 1..Len(recipe.steps) :
                    recipe.steps[i].action = PiecesOf(d.steps.items[i], StepPieces).name

\* a Recipe built from two ingredients, B before A, and two steps, 2 before 1
C5_Witness ==
    /\ rpc = "recipe"
    /\ recipe.ok
    /\ Len(recipe.ingredients) = 2
    /\ recipe.ingredients[1].id = <<"B">> /\ recipe.ingredients[2].id = <<"A">>
    /\ Len(recipe.steps) = 2
    /\ recipe.steps[1].id = <<"2">> /\ recipe.steps[2].id = <<"1">>

(***************************************************************************)
(* C6                                                                      *)
(***************************************************************************)
\* C6: no two entries of the ingredients of a constructed Recipe carry the
\* same id.
C6_IngredientIdsDistinct ==
    (rpc = "recipe" /\ recipe.ok) =>
        \A i, j \in 1..Len(recipe.ingredients) :
            i # j => recipe.ingredients[i].id # recipe.ingredients[j].id

(***************************************************************************)
(* Load passes: what the loader claims speak of                            *)
(***************************************************************************)
\* the files of the tree under directory dir
Tree(f, dir) ==
    {FilePath("sub", n) : n \in Names(f.sub)}
      \cup (IF dir = "top" THEN {FilePath("top", n) : n \in Names(f.top)} ELSE {})

\* the recipe files of a tree: named *.yaml, the manifest's name excepted
RecipeFiles(f, dir) ==
    {p \in Tree(f, dir) : p.name[2] = ".yaml" /\ p.name # BookYaml}

Manifests(f, dir) == {p \in Tree(f, dir) : p.name = BookYaml}

WellFormedRecipe(f, p) == ContentAt(f, p) = MappingContent(GoodRecipe)
WellFormedManifest(f, p) == ContentAt(f, p) = MappingContent(GoodBook)

\* one directory is loaded; its tree holds well-formed recipe files and a
\* well-formed manifest
TreeLoad ==
    /\ Len(inputs) = 1
    /\ is_dir(inputs[1])
    /\ \A p \in RecipeFiles(fs, inputs[1].dir) : WellFormedRecipe(fs, p)
    /\ Manifests(fs, inputs[1].dir) # {}
    /\ \A p \in Manifests(fs, inputs[1].dir) : WellFormedManifest(fs, p)

ProcessedPaths == [i \in 1..Len(processed) |-> processed[i].path]

\* load_recipes returns exactly the N recipes of the tree and never hands a
\* manifest to _process_file
TreeRecipes ==
    /\ lpc # "raised"
    /\ \A i \in 1..Len(processed) : processed[i].path.name # BookYaml
    /\ lpc = "returned" => Len(result) = Cardinality(RecipeFiles(fs, inputs[1].dir))

\* C7 as stated: loading a directory tree that holds N well-formed recipe files
\* and the manifest book.yaml, wherever it sits in the tree, yields exactly N
\* Recipes from load_recipes and exactly one Book from load_book.
C7_TreeLoadAsStated ==
    TreeLoad =>
        /\ TreeRecipes
        /\ lpc # "start" => book.kind = "book"

\* C7: loading a directory tree that holds N well-formed recipe files and the
\* manifest book.yaml yields exactly N Recipes from load_recipes, the manifest
\* never being handed to _process_file wherever it sits; load_book yields one
\* Book, read from that manifest, when book.yaml sits directly inside the
\* loaded directory, and no Book when it sits only in a subdirectory.
C7_TreeLoad ==
    TreeLoad =>
        /\ TreeRecipes
        /\ lpc # "start" =>
              IF FilePath(inputs[1].dir, BookYaml) \in Manifests(fs, inputs[1].dir)
              THEN /\ book.kind = "book"
                   /\ book.path = FilePath(inputs[1].dir, BookYaml)
                   /\ book.book.title = GoodBook.title.value
              ELSE book.kind = "none"

\* two recipe files and the manifest directly inside the loaded directory
C7_Witness ==
    /\ TreeLoad
    /\ lpc = "returned"
    /\ Cardinality(RecipeFiles(fs, inputs[1].dir)) = 2
    /\ Len(result) = 2
    /\ book.kind = "book"

\* the files load_recipes hands to _process_file, in traversal order
Candidates == SelectSeq(Traversal(fs, inputs), IsCandidate)

Paths(entries) == [i \in 1..Len(entries) |-> entries[i].path]

IsNull(p) == ContentAt(fs, p).kind = "null"

\* the number of entries of log l whose file is not null
RECURSIVE NonNull(_)
NonNull(l) ==
    IF l = <<>> THEN 0
    ELSE (IF IsNull(Head(l).path) THEN 0 ELSE 1) + NonNull(Tail(l))

\* C8: a candidate file that decodes to null is skipped: it adds no Recipe,
\* raises no error (a load pass never ends on it), and the files after it are
\* still processed (a pass that returns has processed every candidate).
C8_NullSkipped ==
    /\ \A i \in 1..Len(processed) :
          IsNull(processed[i].path) => processed[i].outcome = "empty"
    /\ lpc = "walking" => Len(recipes) = NonNull(processed)
    /\ lpc = "raised" => ~IsNull(processed[Len(processed)].path)
    /\ lpc = "returned" =>
          /\ ProcessedPaths = Paths(Candidates)
          /\ Len(result) = NonNull(processed)

\* a null file was passed over and a later file gave a Recipe
C8_Witness ==
    /\ lpc = "returned"
    /\ \E i, j \in 1..Len(processed) :
          /\ i < j
          /\ IsNull(processed[i].path)
          /\ processed[j].outcome = "appended"
    /\ Len(result) = 1

\* what decoding and constructing the file at p raises, if anything
FailureOf(p) ==
    LET c == ContentAt(fs, p) IN
    IF c.kind = "undecodable" THEN [type |-> "YAMLError", msg |-> <<"undecodable">>]
    ELSE IF c = MappingContent(NoTitleRecipe)
    THEN [type |-> "RecipeException", msg |-> <<"a recipe must have a title">>]
    ELSE IF c = MappingContent(NoStepsRecipe) THEN [type |-> "KeyError", msg |-> <<"steps">>]
    ELSE NoCause

Failing_candidates == {i \in 1..Len(Candidates) : FailureOf(Candidates[i].path) # NoCause}

\* C9: load_recipes is fail-fast behind one error boundary: if a candidate file
\* fails, load_recipes ends by raising one SourceException whose filename is
\* the first failing file in traversal order and whose cause is the original
\* exception (message 'unexpected exception while processing file' when the
\* cause is no CookbookException); no later file is processed, no list is
\* returned, and nothing but a SourceException ever escapes.
C9_FailFast ==
    /\ raised.type \in {"none", "SourceException"}
    /\ lpc \in {"returned", "raised"} =>
          IF Failing_candidates = {}
          THEN lpc = "returned" /\ raised = NoException
          ELSE LET first == Min(Failing_candidates) IN
               /\ lpc = "raised"
               /\ raised.type = "SourceException"
               /\ raised.filename = Candidates[first].path
               /\ raised.cause = FailureOf(Candidates[first].path)
               /\ raised.message =
                     (IF raised.cause.type \in {"RecipeException", "IngredientException",
                                                "StepException"}
                      THEN "" ELSE "unexpected exception while processing file")
               /\ ProcessedPaths = SubSeq(Paths(Candidates), 1, first)

\* a pass failed on its second file with an unexpected error, a candidate left
C9_Witness ==
    /\ lpc = "raised"
    /\ Len(processed) = 2
    /\ Len(Candidates) > 2
    /\ raised.cause.type = "KeyError"
    /\ raised.message = "unexpected exception while processing file"

(***************************************************************************)
(* main: what the command-line claims speak of                             *)
(***************************************************************************)
\* every recipe file the inputs reach is well-formed or empty, and so is the
\* manifest load_book reads, if there is one
InputsWellFormed ==
    /\ Failing_candidates = {}
    /\ load_book(fs, inputs).kind # "raise"

\* C10: validate-only mode: when --output is absent, main never invokes the
\* renderer and writes nothing; it returns 0 for empty inputs and for inputs
\* whose recipe files and manifest (if any) are all well-formed, whichever
\* other options are given and whether or not a manifest exists; it returns 1
\* if any file produces a source or unexpected error.
C10_ValidateOnly ==
    (mpc = "exit" /\ ~Given(options.output)) =>
        /\ rendered = <<>>
        /\ inputs = <<>> => exit_code = 0
        /\ InputsWellFormed => exit_code = 0
        /\ (inputs # <<>> /\ ~InputsWellFormed) => exit_code = 1

\* C11: when --output is given and the manifest and every recipe file are
\* well-formed, main selects the renderer by name (the --renderer value if
\* given, otherwise the manifest's renderer field), hands the Book, the Recipes
\* and the output path to the render step, and returns 0.
C11_RenderInvoked ==
    (/\ mpc = "exit"
     /\ Given(options.output)
     /\ InputsWellFormed
     /\ load_book(fs, inputs).kind = "book") =>
        /\ exit_code = 0
        /\ Len(rendered) = 1
        /\ rendered[1].renderer = (IF Given(options.renderer) THEN options.renderer.value
                                   ELSE GoodBook.renderer.value)
        /\ rendered[1].recipes = result
        /\ rendered[1].output = options.output.value

(***************************************************************************)
(* Manifest lookup                                                         *)
(***************************************************************************)
\* input path p is a directory directly containing book.yaml, or a file named
\* book.yaml
Matches(p) ==
    IF p.name = <<>> THEN BookYaml \in Names(Listing(fs, p.dir)) ELSE p.name = BookYaml

ManifestPath(p) == [dir |-> p.dir, name |-> BookYaml]

\* book is what the manifest at path alone gives
BuiltFrom(path) ==
    /\ book.path = path
    /\ IF ContentAt(fs, path) = MappingContent(GoodBook)
       THEN /\ book.kind = "book"
            /\ book.book = [title |-> "Cookbook", descriptions |-> "recipes",
                            authors |-> "me", revision |-> "1", renderer |-> "sphinx"]
       ELSE book.kind = "raise"

\* C12: manifest lookup is first-match-wins over the input paths in the order
\* given: load_book builds the Book from the first input that is a directory
\* directly containing book.yaml or a file named book.yaml; manifests of later
\* inputs are never read or merged; load_book returns no Book only when no
\* input matches.
C12_FirstMatchWins ==
    lpc # "start" =>
        IF \A i \in 1..Len(inputs) : ~Matches(inputs[i])
        THEN book.kind = "none"
        ELSE /\ book.kind # "none"
             /\ \E i \in 1..Len(inputs) :
                   /\ Matches(inputs[i])
                   /\ \A j \in 1..(i - 1) : ~Matches(inputs[j])
                   /\ BuiltFrom(ManifestPath(inputs[i]))

\* two inputs lead to two manifests of different content; the first one's is built
C12_Witness ==
    /\ lpc # "start"
    /\ Len(inputs) = 2
    /\ Matches(inputs[1])
    /\ Matches(inputs[2])
    /\ ContentAt(fs, ManifestPath(inputs[1])) = MappingContent(GoodBook)
    /\ ContentAt(fs, ManifestPath(inputs[2])) = MappingContent(NoRendererBook)
    /\ book.kind = "book"
    /\ book.path = ManifestPath(inputs[1])

(***************************************************************************)
(* Image discovery                                                         *)
(***************************************************************************)
\* the files that gave a Recipe, in the order of the recipe list
AppendedPaths ==
    Paths(SelectSeq(processed, LAMBDA e : e.outcome = "appended"))

\* a file of the recipe's directory with the recipe's base name and suffix
Sibling(p, suffix) == <<p.name[1], suffix>> \in Names(Listing(fs, p.dir))

\* C13: for a recipe file that loads successfully, Recipe.img is the name of the
\* first sibling file with the recipe's base name that exists, probing .png
\* then .jpeg (.png wins when both exist); with no such sibling img stays empty
\* and loading still succeeds.
C13_ImageDiscovery ==
    /\ Len(recipes) = Len(AppendedPaths)
    /\ \A i \in 1..Len(recipes) :
          LET p == AppendedPaths[i] IN
          recipes[i].img = (IF Sibling(p, ".png") THEN <<p.name[1], ".png">>
                            ELSE IF Sibling(p, ".jpeg") THEN <<p.name[1], ".jpeg">>
                            ELSE <<>>)
    /\ \A i \in 1..Len(processed) :
          LET p == processed[i].path IN
          (ContentAt(fs, p) = MappingContent(GoodRecipe)) => processed[i].outcome = "appended"

\* a recipe with both images beside it took the .png
C13_Witness ==
    /\ lpc = "returned"
    /\ \E i \in 1..Len(result) :
          /\ Sibling(AppendedPaths[i], ".png")
          /\ Sibling(AppendedPaths[i], ".jpeg")
          /\ result[i].img = <<"a", ".png">>

(***************************************************************************)
(* Manifest failures                                                       *)
(***************************************************************************)
\* C14: a failure while loading the manifest (a missing required key, or an
\* undecodable or empty manifest) reaches load_book's caller only as a
\* SourceException carrying the manifest's file path, never as a raw
\* lower-level exception.
C14_ManifestFailureWrapped ==
    (lpc # "start" /\ book.kind = "raise") =>
        /\ book.exc.type = "SourceException"
        /\ book.exc.filename = book.path

(***************************************************************************)
(* The order of the checks of Recipe construction                          *)
(***************************************************************************)
TitleMissing == recipe_data.title.kind = "absent" \/ recipe_data.title.value = ""

\* the lines of list l that parse rejects
Rejected(l, parse(_)) == {i \in 1..Len(l.items) : ~parse(l.items[i]).ok}

\* l is a list with a line that parse rejects
HasRejected(l, parse(_)) == l.kind = "list" /\ Rejected(l, parse) # {}

\* l is a list of one or more lines, all of which parse accepts
AllAccepted(l, parse(_)) ==
    l.kind = "list" /\ l.items # <<>> /\ Rejected(l, parse) = {}

FailsWith(exc, msg) == ~recipe.ok /\ recipe.exc = exc /\ recipe.msg = msg

\* the load of a file holding the mapping m alone
OneFile(m) == [top |-> <<File(<<"a", ".yaml">>, MappingContent(m))>>, sub |-> <<>>]

LoadOf(m) ==
    _process_file(OneFile(m), FilePath("top", <<"a", ".yaml">>), [src |-> "uuid4", n |-> 1])

\* C15: the checks of Recipe construction are ordered and fail-fast, reporting
\* the first failing check in the order title, ingredients, steps: a missing or
\* empty title is reported whatever the ingredients and steps are; the first
\* ingredient line that does not parse raises its IngredientException whatever
\* the later ingredients and the steps are; 'a recipe must have one or more
\* ingredients' (resp. steps) is raised only when the source list itself is
\* empty; and a failed construction puts no Recipe into the loaded collection.
C15_OrderedChecks ==
    rpc = "recipe" =>
        /\ TitleMissing => FailsWith("RecipeException", <<"a recipe must have a title">>)
        /\ (~TitleMissing /\ HasRejected(recipe_data.ingredients, Ingredient)) =>
              FailsWith("IngredientException",
                        Ingredient(recipe_data.ingredients.items[
                            Min(Rejected(recipe_data.ingredients, Ingredient))]).msg)
        /\ FailsWith("RecipeException", <<"a recipe must have one or more ingredients">>)
              <=> (/\ ~TitleMissing
                   /\ recipe_data.ingredients.kind = "list"
                   /\ recipe_data.ingredients.items = <<>>)
        /\ (/\ ~TitleMissing
            /\ AllAccepted(recipe_data.ingredients, Ingredient)
            /\ HasRejected(recipe_data.steps, Step)) =>
              FailsWith("StepException",
                        Step(recipe_data.steps.items[Min(Rejected(recipe_data.steps, Step))]).msg)
        /\ FailsWith("RecipeException", <<"a recipe must have one or more steps">>)
              <=> (/\ ~TitleMissing
                   /\ AllAccepted(recipe_data.ingredients, Ingredient)
                   /\ recipe_data.steps.kind = "list"
                   /\ recipe_data.steps.items = <<>>)
        /\ ~recipe.ok =>
              /\ LoadOf(recipe_data).kind = "raise"
              /\ LoadOf(recipe_data).exc.cause = [type |-> recipe.exc, msg |-> recipe.msg]
        /\ recipe.ok =>
              /\ ~TitleMissing
              /\ AllAccepted(recipe_data.ingredients, Ingredient)
              /\ AllAccepted(recipe_data.steps, Step)

\* two different ingredient lines are rejected and a step line too; the first
\* ingredient line's exception is the one raised
C15_Witness ==
    /\ rpc = "recipe"
    /\ ~TitleMissing
    /\ recipe_data.ingredients.kind = "list"
    /\ Rejected(recipe_data.ingredients, Ingredient) = {1, 2}
    /\ recipe_data.ingredients.items[1] # recipe_data.ingredients.items[2]
    /\ HasRejected(recipe_data.steps, Step)
    /\ FailsWith("IngredientException", Ingredient(recipe_data.ingredients.items[1]).msg)
    /\ recipe.msg # Ingredient(recipe_data.ingredients.items[2]).msg

====
